---- MODULE Spec2Model ----
(***************************************************************************)
(* TNEA Cutoff Data Analyzer (src/main.py): the normalizer process_data,   *)
(* the query engine apply_filters / apply_sorting, the exporters and the   *)
(* control flow of main, as a state machine.                               *)
(*                                                                         *)
(* Text is a sequence of one-character strings, so that case folding,      *)
(* substring search and numeric parsing are computed and not assumed.      *)
(* A number is an exact decimal  m / 10^e  (normalised: e = 0 or m is not  *)
(* a multiple of 10).  A cell value is a record with a tag t: "null"       *)
(* (NaN / pd.NA / None), "str" or "num".                                   *)
(***************************************************************************)
EXTENDS Integers, Sequences, FiniteSets, TLC

VARIABLES pc, args, response, pisa, writable, raw_data, df, df_again,
          df_filtered, df_sorted, sort_column, exit_code, uncaught,
          stderr, out_file, calls

vars == << pc, args, response, pisa, writable, raw_data, df, df_again,
           df_filtered, df_sorted, sort_column, exit_code, uncaught,
           stderr, out_file, calls >>

(***************************************************************************)
(* Bounds of the model.                                                    *)
(***************************************************************************)
MaxValLen == 3

MaxRecords == 2

MaxFilterRows == 2

MaxSortRows == 3

MaxSortByLen == 2

MaxExportRows == 2

(***************************************************************************)
(* Configuration (module level of src/main.py).                            *)
(***************************************************************************)
COLUMN_MAPPING ==
  << [k |-> "coc", v |-> "College Code"],
     [k |-> "con", v |-> "College Name"],
     [k |-> "brc", v |-> "Branch Code"],
     [k |-> "brn", v |-> "Branch Name"],
     [k |-> "OC", v |-> "OC Cutoff"],
     [k |-> "BC", v |-> "BC Cutoff"],
     [k |-> "BCM", v |-> "BCM Cutoff"],
     [k |-> "MBC", v |-> "MBC Cutoff"],
     [k |-> "SC", v |-> "SC Cutoff"],
     [k |-> "SCA", v |-> "SCA Cutoff"],
     [k |-> "ST", v |-> "ST Cutoff"],
     [k |-> "octl", v |-> "OC Total Seats"],
     [k |-> "ocal", v |-> "OC Allotted Seats"],
     [k |-> "bctl", v |-> "BC Total Seats"],
     [k |-> "bcal", v |-> "BC Allotted Seats"],
     [k |-> "bcmtl", v |-> "BCM Total Seats"],
     [k |-> "bcmal", v |-> "BCM Allotted Seats"],
     [k |-> "mbctl", v |-> "MBC Total Seats"],
     [k |-> "mbcal", v |-> "MBC Allotted Seats"],
     [k |-> "sctl", v |-> "SC Total Seats"],
     [k |-> "scal", v |-> "SC Allotted Seats"],
     [k |-> "scatl", v |-> "SCA Total Seats"],
     [k |-> "scaal", v |-> "SCA Allotted Seats"],
     [k |-> "sttl", v |-> "ST Total Seats"],
     [k |-> "stal", v |-> "ST Allotted Seats"] >>

CUTOFF_COLUMNS ==
  << "OC Cutoff", "BC Cutoff", "BCM Cutoff", "MBC Cutoff", "SC Cutoff",
     "SCA Cutoff", "ST Cutoff" >>

\* The spelling of every raw code and canonical name of COLUMN_MAPPING.
Chars(name) ==
  CASE name = "coc" -> <<"c", "o", "c">>
    [] name = "con" -> <<"c", "o", "n">>
    [] name = "brc" -> <<"b", "r", "c">>
    [] name = "brn" -> <<"b", "r", "n">>
    [] name = "OC" -> <<"O", "C">>
    [] name = "BC" -> <<"B", "C">>
    [] name = "BCM" -> <<"B", "C", "M">>
    [] name = "MBC" -> <<"M", "B", "C">>
    [] name = "SC" -> <<"S", "C">>
    [] name = "SCA" -> <<"S", "C", "A">>
    [] name = "ST" -> <<"S", "T">>
    [] name = "octl" -> <<"o", "c", "t", "l">>
    [] name = "ocal" -> <<"o", "c", "a", "l">>
    [] name = "bctl" -> <<"b", "c", "t", "l">>
    [] name = "bcal" -> <<"b", "c", "a", "l">>
    [] name = "bcmtl" -> <<"b", "c", "m", "t", "l">>
    [] name = "bcmal" -> <<"b", "c", "m", "a", "l">>
    [] name = "mbctl" -> <<"m", "b", "c", "t", "l">>
    [] name = "mbcal" -> <<"m", "b", "c", "a", "l">>
    [] name = "sctl" -> <<"s", "c", "t", "l">>
    [] name = "scal" -> <<"s", "c", "a", "l">>
    [] name = "scatl" -> <<"s", "c", "a", "t", "l">>
    [] name = "scaal" -> <<"s", "c", "a", "a", "l">>
    [] name = "sttl" -> <<"s", "t", "t", "l">>
    [] name = "stal" -> <<"s", "t", "a", "l">>
    [] name = "College Code" -> <<"C", "o", "l", "l", "e", "g", "e", " ", "C", "o", "d", "e">>
    [] name = "College Name" -> <<"C", "o", "l", "l", "e", "g", "e", " ", "N", "a", "m", "e">>
    [] name = "Branch Code" -> <<"B", "r", "a", "n", "c", "h", " ", "C", "o", "d", "e">>
    [] name = "Branch Name" -> <<"B", "r", "a", "n", "c", "h", " ", "N", "a", "m", "e">>
    [] name = "OC Cutoff" -> <<"O", "C", " ", "C", "u", "t", "o", "f", "f">>
    [] name = "BC Cutoff" -> <<"B", "C", " ", "C", "u", "t", "o", "f", "f">>
    [] name = "BCM Cutoff" -> <<"B", "C", "M", " ", "C", "u", "t", "o", "f", "f">>
    [] name = "MBC Cutoff" -> <<"M", "B", "C", " ", "C", "u", "t", "o", "f", "f">>
    [] name = "SC Cutoff" -> <<"S", "C", " ", "C", "u", "t", "o", "f", "f">>
    [] name = "SCA Cutoff" -> <<"S", "C", "A", " ", "C", "u", "t", "o", "f", "f">>
    [] name = "ST Cutoff" -> <<"S", "T", " ", "C", "u", "t", "o", "f", "f">>
    [] name = "OC Total Seats" -> <<"O", "C", " ", "T", "o", "t", "a", "l", " ", "S", "e", "a", "t", "s">>
    [] name = "OC Allotted Seats" -> <<"O", "C", " ", "A", "l", "l", "o", "t", "t", "e", "d", " ", "S", "e", "a", "t", "s">>
    [] name = "BC Total Seats" -> <<"B", "C", " ", "T", "o", "t", "a", "l", " ", "S", "e", "a", "t", "s">>
    [] name = "BC Allotted Seats" -> <<"B", "C", " ", "A", "l", "l", "o", "t", "t", "e", "d", " ", "S", "e", "a", "t", "s">>
    [] name = "BCM Total Seats" -> <<"B", "C", "M", " ", "T", "o", "t", "a", "l", " ", "S", "e", "a", "t", "s">>
    [] name = "BCM Allotted Seats" -> <<"B", "C", "M", " ", "A", "l", "l", "o", "t", "t", "e", "d", " ", "S", "e", "a", "t", "s">>
    [] name = "MBC Total Seats" -> <<"M", "B", "C", " ", "T", "o", "t", "a", "l", " ", "S", "e", "a", "t", "s">>
    [] name = "MBC Allotted Seats" -> <<"M", "B", "C", " ", "A", "l", "l", "o", "t", "t", "e", "d", " ", "S", "e", "a", "t", "s">>
    [] name = "SC Total Seats" -> <<"S", "C", " ", "T", "o", "t", "a", "l", " ", "S", "e", "a", "t", "s">>
    [] name = "SC Allotted Seats" -> <<"S", "C", " ", "A", "l", "l", "o", "t", "t", "e", "d", " ", "S", "e", "a", "t", "s">>
    [] name = "SCA Total Seats" -> <<"S", "C", "A", " ", "T", "o", "t", "a", "l", " ", "S", "e", "a", "t", "s">>
    [] name = "SCA Allotted Seats" -> <<"S", "C", "A", " ", "A", "l", "l", "o", "t", "t", "e", "d", " ", "S", "e", "a", "t", "s">>
    [] name = "ST Total Seats" -> <<"S", "T", " ", "T", "o", "t", "a", "l", " ", "S", "e", "a", "t", "s">>
    [] name = "ST Allotted Seats" -> <<"S", "T", " ", "A", "l", "l", "o", "t", "t", "e", "d", " ", "S", "e", "a", "t", "s">>
    [] OTHER -> <<>>

Range(s) == { s[i] : i \in 1..Len(s) }

MappingKeys == { COLUMN_MAPPING[i].k : i \in 1..Len(COLUMN_MAPPING) }

\* list(COLUMN_MAPPING.values())
MappingValues == [ i \in 1..Len(COLUMN_MAPPING) |-> COLUMN_MAPPING[i].v ]

(***************************************************************************)
(* Text: str.lower / str.upper and the substring test  a in b.             *)
(***************************************************************************)
UpperLetters ==
  << "A","B","C","D","E","F","G","H","I","J","K","L","M",
     "N","O","P","Q","R","S","T","U","V","W","X","Y","Z" >>

LowerLetters ==
  << "a","b","c","d","e","f","g","h","i","j","k","l","m",
     "n","o","p","q","r","s","t","u","v","w","x","y","z" >>

LowerChar(c) ==
  IF \E i \in 1..26 : UpperLetters[i] = c
    THEN LowerLetters[CHOOSE i \in 1..26 : UpperLetters[i] = c]
    ELSE c

UpperChar(c) ==
  IF \E i \in 1..26 : LowerLetters[i] = c
    THEN UpperLetters[CHOOSE i \in 1..26 : LowerLetters[i] = c]
    ELSE c

Lower(s) == [ i \in 1..Len(s) |-> LowerChar(s[i]) ]

Upper(s) == [ i \in 1..Len(s) |-> UpperChar(s[i]) ]

\* Python's  a in b  for strings: a occurs in b as a contiguous substring.
StrIn(a, b) ==
  \E o \in 0..(Len(b) - Len(a)) : \A i \in 1..Len(a) : b[o + i] = a[i]

(***************************************************************************)
(* Cell values.                                                            *)
(***************************************************************************)
NULL == [t |-> "null", s |-> <<>>, m |-> 0, e |-> 0]

Str(s) == [t |-> "str", s |-> s, m |-> 0, e |-> 0]

RECURSIVE Pow10(_)
Pow10(n) == IF n = 0 THEN 1 ELSE 10 * Pow10(n - 1)

RECURSIVE Normalised(_, _)
Normalised(m, e) ==
  IF e > 0 /\ m % 10 = 0 THEN Normalised(m \div 10, e - 1)
  ELSE [t |-> "num", s |-> <<>>, m |-> m, e |-> e]

Num(m, e) == Normalised(m, e)

IsNull(v) == v.t = "null"

\* a <= b for two numbers.
NumLeq(a, b) == a.m * Pow10(b.e) <= b.m * Pow10(a.e)

NumLess(a, b) == a.m * Pow10(b.e) < b.m * Pow10(a.e)

IsIntegral(v) == v.t = "num" /\ v.e = 0

(***************************************************************************)
(* pd.to_numeric(..., errors='coerce') on one cell.  The text accepted is  *)
(* digits, optionally with one decimal point that has a digit on at least  *)
(* one side (the inputs of the model carry no sign, exponent or blanks).   *)
(***************************************************************************)
Digits == << "0","1","2","3","4","5","6","7","8","9" >>

IsDigit(c) == \E i \in 1..10 : Digits[i] = c

DigitVal(c) == (CHOOSE i \in 1..10 : Digits[i] = c) - 1

RECURSIVE DigitsVal(_)
DigitsVal(s) ==
  IF Len(s) = 0 THEN 0
  ELSE 10 * DigitsVal(SubSeq(s, 1, Len(s) - 1)) + DigitVal(s[Len(s)])

AllDigits(s) == \A i \in 1..Len(s) : IsDigit(s[i])

DotAt(s) == { i \in 1..Len(s) : s[i] = "." }

ParsesAsNumber(s) ==
  \/ Len(s) > 0 /\ AllDigits(s)
  \/ /\ Cardinality(DotAt(s)) = 1
     /\ Len(s) > 1
     /\ \A i \in 1..Len(s) : IsDigit(s[i]) \/ s[i] = "."

ParseNumber(s) ==
  IF DotAt(s) = {} THEN Num(DigitsVal(s), 0)
  ELSE LET d    == CHOOSE i \in DotAt(s) : TRUE
           ip   == SubSeq(s, 1, d - 1)
           fp   == SubSeq(s, d + 1, Len(s))
       IN  Num(DigitsVal(ip) * Pow10(Len(fp)) + DigitsVal(fp), Len(fp))

\* A coercion that parses text only and turns a cell that is a number already
\* into null.
to_numeric_text_only(v) ==
  IF v.t = "str" /\ ParsesAsNumber(v.s) THEN ParseNumber(v.s) ELSE NULL

to_numeric(v) ==
  CASE v.t = "num" -> v
    [] v.t = "str" -> IF ParsesAsNumber(v.s) THEN ParseNumber(v.s) ELSE NULL
    [] OTHER -> NULL

\* Series.astype('Int64') of a float cell fails on a non-integral value
\* ("cannot safely cast non-equivalent float64 to int64").
CastRaises(v) == v.t = "num" /\ ~IsIntegral(v)

(***************************************************************************)
(* Tables.  A DataFrame is its column labels in order and its rows in      *)
(* order; a row keeps its index label idx and one cell per column, in the  *)
(* order of the columns.                                                   *)
(***************************************************************************)
EmptyDF == [columns |-> <<>>, rows |-> <<>>]

\* df.empty
IsEmpty(t) == Len(t.rows) = 0 \/ Len(t.columns) = 0

ColSet(t) == Range(t.columns)

ColIndex(t, c) == CHOOSE j \in 1..Len(t.columns) : t.columns[j] = c

\* df[c] of row i
Cell(t, i, c) == t.rows[i].cells[ColIndex(t, c)]

\* A raw record is a JSON object: a sequence of <<key, value>> pairs.
RecKeys(r) == [ i \in 1..Len(r) |-> r[i][1] ]

RecHas(r, k) == \E i \in 1..Len(r) : r[i][1] = k

RecGet(r, k) == r[CHOOSE i \in 1..Len(r) : r[i][1] = k][2]

\* The elements of s at the positions I, in the order of s.
Pick(s, I) ==
  LET in(i) == i \in I
      pos == SelectSeq([ i \in 1..Len(s) |-> i ], in)
  IN  [ k \in 1..Len(pos) |-> s[pos[k]] ]

\* The column order of pd.DataFrame(list of dicts): keys in first-seen order
\* (the keys of one JSON object are distinct).
RECURSIVE FirstSeenKeys(_)
FirstSeenKeys(recs) ==
  IF Len(recs) = 0 THEN <<>>
  ELSE LET before == FirstSeenKeys(SubSeq(recs, 1, Len(recs) - 1))
           new(k) == k \notin Range(before)
       IN  before \o SelectSeq(RecKeys(recs[Len(recs)]), new)

\* The sequence f with every element computed.
Tuple(f) == f \o <<>>

\* pd.DataFrame(raw_data): absent keys become NaN, the index is 0..n-1.
DataFrame(recs) ==
  LET cols == FirstSeenKeys(recs)
  IN  [columns |-> cols,
       rows |-> Tuple([ i \in 1..Len(recs) |->
                  [idx |-> i - 1,
                   cells |-> Tuple([ j \in 1..Len(cols) |->
                               IF RecHas(recs[i], cols[j])
                                 THEN RecGet(recs[i], cols[j])
                                 ELSE NULL ])] ])]

\* The table t with the column labels cols and, row by row, the cells
\* newCells(old cells); index labels and row order are kept.
WithCells(t, cols, newCells(_)) ==
  [columns |-> Tuple(cols),
   rows |-> Tuple([ i \in 1..Len(t.rows) |->
              [idx |-> t.rows[i].idx,
               cells |-> Tuple(newCells(t.rows[i].cells))] ])]

\* df.drop(columns=[c])
DropColumn(t, c) ==
  LET keep == { j \in 1..Len(t.columns) : t.columns[j] # c }
      kept(cs) == Pick(cs, keep)
  IN  WithCells(t, Pick(t.columns, keep), kept)

RenameLabel(c) ==
  IF c \in MappingKeys
    THEN COLUMN_MAPPING[CHOOSE i \in 1..Len(COLUMN_MAPPING) :
                          COLUMN_MAPPING[i].k = c].v
    ELSE c

\* df.rename(columns=COLUMN_MAPPING)
RenameColumns(t) ==
  [columns |-> Tuple([ j \in 1..Len(t.columns) |-> RenameLabel(t.columns[j]) ]),
   rows |-> t.rows]

\* A normalizer that leaves out the step adding the missing columns.
EnsureColumnsSkipped(t, names) == t

\* for new_col_name in COLUMN_MAPPING.values(): df[new_col_name] = pd.NA when
\* the table lacks it; each new column goes to the end, in mapping order.
EnsureColumns(t, names) ==
  LET missing(c) == c \notin ColSet(t)
      added == SelectSeq(names, missing)
      widened(cs) == cs \o [ k \in 1..Len(added) |-> NULL ]
  IN  WithCells(t, t.columns \o added, widened)

\* for col in names: if col in df.columns: df[col] = f(df[col]), cell by cell
MapColumns(t, names, f(_)) ==
  LET hit == { j \in 1..Len(t.columns) : t.columns[j] \in Range(names) }
      mapped(cs) == [ j \in 1..Len(cs) |-> IF j \in hit THEN f(cs[j]) ELSE cs[j] ]
  IN  WithCells(t, t.columns, mapped)

\* seat_cols: the mapped names holding 'Seats' that are no cutoff column
seat_cols ==
  LET isSeat(c) == /\ StrIn(<<"S","e","a","t","s">>, Chars(c))
                   /\ c \notin Range(CUTOFF_COLUMNS)
  IN  SelectSeq(MappingValues, isSeat)

\* df[ordered_columns + extra_columns]
ReorderColumns(t) ==
  LET inDf(c)    == c \in ColSet(t)
      ordered    == SelectSeq(MappingValues, inDf)
      isExtra(c) == c \notin Range(ordered)
      extra      == SelectSeq(t.columns, isExtra)
      cols       == ordered \o extra
      from       == Tuple([ k \in 1..Len(cols) |-> ColIndex(t, cols[k]) ])
      moved(cs)  == [ k \in 1..Len(cols) |-> cs[from[k]] ]
  IN  WithCells(t, cols, moved)

\* The seat conversion raises when some seat cell is a non-integral number.
SeatCastRaises(t) ==
  \E i \in 1..Len(t.rows) : \E j \in 1..Len(t.columns) :
     /\ t.columns[j] \in Range(seat_cols)
     /\ CastRaises(to_numeric(t.rows[i].cells[j]))

\* process_data: [raised |-> the call ended in an exception, df |-> its result]
process_data(recs) ==
  IF Len(recs) = 0 THEN [raised |-> FALSE, df |-> EmptyDF]
  ELSE LET t0 == DataFrame(recs)
           t1 == IF "_id" \in ColSet(t0) THEN DropColumn(t0, "_id") ELSE t0
           t2 == RenameColumns(t1)
           t3 == EnsureColumns(t2, MappingValues)
           t4 == MapColumns(t3, CUTOFF_COLUMNS, to_numeric)
       IN  IF SeatCastRaises(t4) THEN [raised |-> TRUE, df |-> EmptyDF]
           ELSE [raised |-> FALSE,
                 df |-> ReorderColumns(MapColumns(t4, seat_cols, to_numeric))]

\* df.to_dict('records'): the rows of a table as records again
to_records(t) ==
  [ i \in 1..Len(t.rows) |->
    [ j \in 1..Len(t.columns) |-> << t.columns[j], t.rows[i].cells[j] >> ] ]

(***************************************************************************)
(* Parsed command line (argparse.Namespace).  An option that was not given *)
(* is NULL; a text option is Str(..), a float option is Num(..).           *)
(***************************************************************************)
Communities == << "oc", "bc", "bcm", "mbc", "sc", "sca", "st" >>

NoBounds == [ c \in Range(Communities) |-> NULL ]

DefaultArgs ==
  [year |-> 2024, output_file |-> NULL, format |-> "excel",
   list_colleges |-> FALSE, list_branches |-> FALSE,
   list_sortable_columns |-> FALSE,
   filter_college_code |-> NULL, filter_college_name |-> NULL,
   filter_branch_code |-> NULL, filter_branch_name |-> NULL,
   min_cutoff |-> NoBounds, max_cutoff |-> NoBounds,
   sort_by |-> NULL, sort_order |-> "asc"]

\* Python truthiness of an optional text option: given and not empty
Truthy(v) == v.t = "str" /\ Len(v.s) > 0

NoFile == [written |-> FALSE, format |-> "", header |-> <<>>, rows |-> <<>>]

\* What the GET of fetch_tnea_data meets: kind "ok" with the decoded body,
\* or one of the failures.
Response(kind, body) == [kind |-> kind, body |-> body]

NoResponse == Response("none", <<>>)

\* Nothing has been computed, reported or written yet.
NoOutputs ==
  /\ df_again = EmptyDF
  /\ sort_column = ""
  /\ exit_code = -1
  /\ uncaught = FALSE
  /\ stderr = {}
  /\ out_file = NoFile
  /\ calls = <<>>

(***************************************************************************)
(* apply_filters.                                                          *)
(***************************************************************************)
RECURSIVE IntDigits(_)
IntDigits(n) ==
  IF n < 10 THEN << Digits[n + 1] >>
  ELSE Append(IntDigits(n \div 10), Digits[(n % 10) + 1])

\* str() of a number: a float shows its decimals, at least one.
NumText(v, asFloat) ==
  LET whole == IntDigits(v.m \div Pow10(v.e))
      frac  == [ k \in 1..v.e |->
                 Digits[((v.m \div Pow10(v.e - k)) % 10) + 1] ]
  IN  IF v.e > 0 THEN whole \o <<".">> \o frac
      ELSE IF asFloat THEN whole \o <<".", "0">>
      ELSE whole

\* The column c of t holds numbers only, read as a numeric dtype.
NumericDtype(t, c) ==
  /\ \E i \in 1..Len(t.rows) : Cell(t, i, c).t = "num"
  /\ \A i \in 1..Len(t.rows) : Cell(t, i, c).t \in { "num", "null" }

\* A numeric column with a missing or non-integral cell is a float column.
FloatDtype(t, c) ==
  /\ NumericDtype(t, c)
  /\ \E i \in 1..Len(t.rows) : ~IsIntegral(Cell(t, i, c))

\* One cell of df[c].astype(str); a missing value reads 'nan' (the model
\* keeps one kind of missing value).
AsStr(t, v, c) ==
  CASE v.t = "str" -> v.s
    [] v.t = "num" -> NumText(v, FloatDtype(t, c))
    [] OTHER -> << "n", "a", "n" >>

\* df[mask]: the rows the mask selects, in order, index labels kept.
Where(t, mask(_)) == [columns |-> t.columns, rows |-> SelectSeq(t.rows, mask)]

CellOf(t, row, c) == row.cells[ColIndex(t, c)]

\* The .str accessor raises AttributeError on a column of numeric dtype, and
\* on an object column whose present values are all numbers.  orig is the
\* table the column was built in, t what is left of it.
StrAccessorRaises(orig, t, c) ==
  \/ NumericDtype(orig, c)
  \/ /\ \E i \in 1..Len(t.rows) : ~IsNull(Cell(t, i, c))
     /\ \A i \in 1..Len(t.rows) : Cell(t, i, c).t \in { "num", "null" }

\* re.search(pat, text, re.IGNORECASE) for a pattern of ordinary characters
\* and '.', which stands for any character.
RegexSearch(pat, text) ==
  \E o \in 0..(Len(text) - Len(pat)) :
     \A i \in 1..Len(pat) :
        \/ pat[i] = "."
        \/ LowerChar(pat[i]) = LowerChar(text[o + i])

\* df[df[c].str.contains(text, case=False, na=False)]  (regex=True by default)
ContainsFilter(t, c, text) ==
  LET mask(row) == /\ CellOf(t, row, c).t = "str"
                   /\ RegexSearch(text, CellOf(t, row, c).s)
  IN  Where(t, mask)

\* df[df['College Code'].astype(str) == str(code)]
CollegeCodeFilter(t, code) ==
  LET mask(row) ==
        AsStr(t, CellOf(t, row, "College Code"), "College Code") = code
  IN  Where(t, mask)

\* A branch filter that upper-cases the column in the table before comparing.
BranchCodeFilterInPlace(t, code) ==
  LET j == ColIndex(t, "Branch Code")
      up(cs) == [ k \in 1..Len(cs) |->
                  IF k = j /\ cs[k].t = "str" THEN Str(Upper(cs[k].s))
                  ELSE cs[k] ]
      u == WithCells(t, t.columns, up)
      mask(row) == /\ row.cells[j].t = "str"
                   /\ row.cells[j].s = Upper(code)
  IN  Where(u, mask)

\* df[df['Branch Code'].str.upper() == code.upper()]
BranchCodeFilter(t, code) ==
  LET mask(row) == /\ CellOf(t, row, "Branch Code").t = "str"
                   /\ Upper(CellOf(t, row, "Branch Code").s) = Upper(code)
  IN  Where(t, mask)

CutoffColumnOf(k) == CUTOFF_COLUMNS[k]

\* One turn of the loop over the communities: the minimum, then the maximum.
CutoffFilter(t, a, k) ==
  LET c  == CutoffColumnOf(k)
      lo == a.min_cutoff[Communities[k]]
      hi == a.max_cutoff[Communities[k]]
      atLeast(row) == /\ ~IsNull(CellOf(t, row, c))
                      /\ NumLeq(lo, CellOf(t, row, c))
      atMost(row)  == /\ ~IsNull(CellOf(t, row, c))
                      /\ NumLeq(CellOf(t, row, c), hi)
      t1 == IF ~IsNull(lo) THEN Where(t, atLeast) ELSE t
  IN  IF ~IsNull(hi) THEN Where(t1, atMost) ELSE t1

RECURSIVE CutoffFilters(_, _, _)
CutoffFilters(t, a, k) ==
  IF k > Len(Communities) THEN t
  ELSE CutoffFilters(CutoffFilter(t, a, k), a, k + 1)

\* apply_filters: [raised |-> the call ended in an exception, df |-> result]
apply_filters(t, a) ==
  IF IsEmpty(t) THEN [raised |-> FALSE, df |-> t]
  ELSE
    LET t1 == IF Truthy(a.filter_college_code)
                THEN CollegeCodeFilter(t, a.filter_college_code.s) ELSE t
        r2 == /\ Truthy(a.filter_college_name)
              /\ StrAccessorRaises(t, t1, "College Name")
        t2 == IF Truthy(a.filter_college_name)
                THEN ContainsFilter(t1, "College Name", a.filter_college_name.s)
                ELSE t1
        r3 == /\ Truthy(a.filter_branch_code)
              /\ StrAccessorRaises(t, t2, "Branch Code")
        t3 == IF Truthy(a.filter_branch_code)
                THEN BranchCodeFilter(t2, a.filter_branch_code.s) ELSE t2
        r4 == /\ Truthy(a.filter_branch_name)
              /\ StrAccessorRaises(t, t3, "Branch Name")
        t4 == IF Truthy(a.filter_branch_name)
                THEN ContainsFilter(t3, "Branch Name", a.filter_branch_name.s)
                ELSE t3
    IN  IF r2 \/ r3 \/ r4 THEN [raised |-> TRUE, df |-> EmptyDF]
        ELSE [raised |-> FALSE, df |-> CutoffFilters(t4, a, 1)]

(***************************************************************************)
(* apply_sorting.                                                          *)
(***************************************************************************)
\* Resolution of --sort-by: [found |-> a column was resolved, name |-> it]
NoColumn == [found |-> FALSE, name |-> ""]

Column(c) == [found |-> TRUE, name |-> c]

\* if args.sort_by in COLUMN_MAPPING.values()
IsMappedName(s) ==
  \E j \in 1..Len(COLUMN_MAPPING) : Chars(COLUMN_MAPPING[j].v) = s

\* A partial match that looks at the mapped name only.
PartialMatchNameOnly(s, j) == StrIn(Lower(s), Lower(Chars(COLUMN_MAPPING[j].v)))

\* The test of the partial match on one entry of the mapping.
PartialMatch(s, j) ==
  \/ StrIn(Lower(s), Lower(Chars(COLUMN_MAPPING[j].v)))
  \/ StrIn(Lower(s), Lower(Chars(COLUMN_MAPPING[j].k)))

\* for k, v in COLUMN_MAPPING.items(): the first entry that matches, from j on
RECURSIVE FirstPartialMatch(_, _)
FirstPartialMatch(s, j) ==
  IF j > Len(COLUMN_MAPPING) THEN NoColumn
  ELSE IF PartialMatch(s, j) THEN Column(COLUMN_MAPPING[j].v)
  ELSE FirstPartialMatch(s, j + 1)

ResolveSortColumn(s) ==
  IF IsMappedName(s)
    THEN Column(COLUMN_MAPPING[CHOOSE j \in 1..Len(COLUMN_MAPPING) :
                                 Chars(COLUMN_MAPPING[j].v) = s].v)
  ELSE LET partial == FirstPartialMatch(s, 1)
       IN  IF partial.found THEN partial
           ELSE IF \E j \in 1..Len(COLUMN_MAPPING) :
                      Chars(COLUMN_MAPPING[j].k) = s
             THEN Column(COLUMN_MAPPING[CHOOSE j \in 1..Len(COLUMN_MAPPING) :
                                          Chars(COLUMN_MAPPING[j].k) = s].v)
           ELSE NoColumn

\* The characters of the model in code point order.
CodePoints ==
  << " ", "." >> \o Digits \o UpperLetters \o LowerLetters

CodePoint(c) == CHOOSE i \in 1..Len(CodePoints) : CodePoints[i] = c

\* a < b for two texts: Python's order of strings.
StrLess(a, b) ==
  \E i \in 1..(Len(b)) :
     /\ \A j \in 1..(i - 1) : j <= Len(a) /\ a[j] = b[j]
     /\ \/ i = Len(a) + 1
        \/ i <= Len(a) /\ CodePoint(a[i]) < CodePoint(b[i])

\* u < v for two cells that are present and of one type.
KeyLess(u, v) ==
  IF u.t = "num" THEN NumLess(u, v) ELSE StrLess(u.s, v.s)

\* Sorting compares text with numbers (TypeError) when the column holds both.
SortRaises(t, c) ==
  /\ \E i \in 1..Len(t.rows) : Cell(t, i, c).t = "str"
  /\ \E i \in 1..Len(t.rows) : Cell(t, i, c).t = "num"

RowOrders(n) ==
  { p \in [1..n -> 1..n] : \A i, j \in 1..n : p[i] = p[j] => i = j }

\* na_position for the resolved column
NaPositionLastAlways(c, ascending) == "last"

NaPosition(c, ascending) ==
  IF c \in Range(CUTOFF_COLUMNS)
    THEN (IF ascending THEN "last" ELSE "first")
    ELSE "last"

\* The orders df.sort_values(by=c, ascending=.., na_position=..) can give.
\* kind is the default 'quicksort', which is not stable: rows with equal
\* keys come out in any order.  The rows with a missing key are set apart
\* before the sort and keep their order (pandas nargsort).
SortOutcomes(t, c, ascending, na_position) ==
  LET n      == Len(t.rows)
      key(i) == Cell(t, i, c)
      nulls  == { i \in 1..n : IsNull(key(i)) }
      m      == n - Cardinality(nulls)
      first  == IF na_position = "first" THEN 1 ELSE m + 1
      \* the positions of the rows with a key
      lo     == IF na_position = "first" THEN n - m + 1 ELSE 1
      ok(p)  ==
        /\ \A q \in 0..(n - m - 1) :
             /\ p[first + q] \in nulls
             /\ Cardinality({ i \in nulls : i < p[first + q] }) = q
        /\ \A q \in lo..(lo + m - 2) :
             IF ascending THEN ~KeyLess(key(p[q + 1]), key(p[q]))
             ELSE ~KeyLess(key(p[q]), key(p[q + 1]))
  IN  { [columns |-> t.columns, rows |-> [ q \in 1..n |-> t.rows[p[q]] ]] :
          p \in { p \in RowOrders(n) : ok(p) } }

\* apply_sorting: the column it resolved, the diagnostic it printed and the
\* tables it can return.
apply_sorting(t, a) ==
  IF IsEmpty(t) \/ ~Truthy(a.sort_by)
    THEN [column |-> NoColumn, diag |-> {}, results |-> { t }]
  ELSE LET col == ResolveSortColumn(a.sort_by.s)
           ascending == a.sort_order = "asc"
       IN  IF ~col.found \/ col.name \notin ColSet(t)
             THEN [column |-> NoColumn, diag |-> { "sort_column_not_found" },
                   results |-> { t }]
           ELSE IF SortRaises(t, col.name)
             THEN [column |-> col, diag |-> { "sort_error" }, results |-> { t }]
           ELSE [column |-> col, diag |-> {},
                 results |-> SortOutcomes(t, col.name, ascending,
                                          NaPosition(col.name, ascending))]

(***************************************************************************)
(* The exporters.                                                          *)
(***************************************************************************)
\* df.fillna(value) raises TypeError when an Int64 column has a missing cell
\* and value is text ("Invalid value 'N/A' for dtype Int64").
FillnaRaises(t) ==
  \E i \in 1..Len(t.rows) : \E j \in 1..Len(t.columns) :
     /\ t.columns[j] \in Range(seat_cols)
     /\ IsNull(t.rows[i].cells[j])

\* df.fillna(value) when it does not raise
fillna(t, value) ==
  LET filled(cs) == [ j \in 1..Len(cs) |-> IF IsNull(cs[j]) THEN value ELSE cs[j] ]
  IN  WithCells(t, t.columns, filled)

\* The file an exporter writes: a header row and one row per record.
FileOf(format, t) ==
  [written |-> TRUE, format |-> format, header |-> t.columns,
   rows |-> [ i \in 1..Len(t.rows) |-> t.rows[i].cells ]]

ExportError == [file |-> NoFile, diag |-> { "export_error" }]

\* save_to_excel: fillna('N/A') and to_excel in one try block; canWrite says
\* whether the write itself goes through.
save_to_excel(t, canWrite) ==
  IF FillnaRaises(t) \/ ~canWrite THEN ExportError
  ELSE [file |-> FileOf("excel", fillna(t, Str(<<"N", "/", "A">>))), diag |-> {}]

\* save_to_csv: fillna('') and to_csv in one try block
save_to_csv(t, canWrite) ==
  IF FillnaRaises(t) \/ ~canWrite THEN ExportError
  ELSE [file |-> FileOf("csv", fillna(t, Str(<<>>))), diag |-> {}]

\* save_to_pdf: nothing without the renderer, else fillna('N/A'), the HTML
\* table and the conversion in one try block
save_to_pdf(t, canWrite, renderer) ==
  IF ~renderer THEN [file |-> NoFile, diag |-> { "pdf_unavailable" }]
  ELSE IF FillnaRaises(t) \/ ~canWrite THEN ExportError
  ELSE [file |-> FileOf("pdf", fillna(t, Str(<<"N", "/", "A">>))), diag |-> {}]

(***************************************************************************)
(* main, step by step.  exit_code is -1 while the run goes on.             *)
(***************************************************************************)
YEAR_TO_API_CODE ==
  [ y \in 2020..2024 |->
    CASE y = 2024 -> "1C" [] y = 2023 -> "2C" [] y = 2022 -> "3C"
      [] y = 2021 -> "4C" [] OTHER -> "5C" ]

\* sys.exit(code), after printing the diagnostics d
Exit(code, d) ==
  /\ pc' = "done"
  /\ exit_code' = code
  /\ stderr' = stderr \cup d

\* An exception nothing catches: traceback, exit status 1
Crash ==
  /\ pc' = "done"
  /\ exit_code' = 1
  /\ uncaught' = TRUE
  /\ stderr' = stderr \cup { "traceback" }

\* parser.parse_args(): --year is checked against its choices
ParseArgs ==
  /\ pc = "parse"
  /\ IF args.year \in DOMAIN YEAR_TO_API_CODE
       THEN pc' = "start" /\ UNCHANGED << exit_code, stderr >>
       ELSE Exit(2, { "usage" })
  /\ UNCHANGED << args, response, pisa, writable, raw_data, df, df_again,
                  df_filtered, df_sorted, sort_column, uncaught, out_file,
                  calls >>

\* --list-sortable-columns, the check of the flag combination, the year code
CheckArgs ==
  /\ pc = "start"
  /\ IF args.list_sortable_columns THEN Exit(0, {})
     ELSE IF ~(args.list_colleges \/ args.list_branches)
               /\ ~Truthy(args.output_file)
       THEN Exit(2, { "usage" })
     ELSE IF args.year \notin DOMAIN YEAR_TO_API_CODE
       THEN Exit(1, { "invalid_year" })
     ELSE pc' = "fetch" /\ UNCHANGED << exit_code, stderr >>
  /\ UNCHANGED << args, response, pisa, writable, raw_data, df, df_again,
                  df_filtered, df_sorted, sort_column, uncaught, out_file,
                  calls >>

\* fetch_tnea_data: the body on success, None on any failure
fetch_tnea_data(resp) ==
  IF resp.kind = "ok" THEN [none |-> FALSE, data |-> resp.body, diag |-> {}]
  ELSE [none |-> TRUE, data |-> <<>>, diag |-> { resp.kind }]

Fetch ==
  /\ pc = "fetch"
  /\ calls' = Append(calls, "fetch")
  /\ LET r == fetch_tnea_data(response)
     IN  /\ raw_data' = r.data
         /\ IF r.none THEN Exit(1, r.diag \cup { "fetch_failed" })
            ELSE IF Len(r.data) = 0 THEN Exit(0, { "no_data" })
            ELSE pc' = "process" /\ UNCHANGED << exit_code, stderr >>
  /\ UNCHANGED << args, response, pisa, writable, df, df_again, df_filtered,
                  df_sorted, sort_column, uncaught, out_file >>

Process ==
  /\ pc = "process"
  /\ LET r == process_data(raw_data)
     IN  /\ df' = r.df
         /\ IF r.raised THEN Crash
            ELSE /\ UNCHANGED uncaught
                 /\ IF IsEmpty(r.df) THEN Exit(0, { "no_data_to_process" })
                    ELSE pc' = "list" /\ UNCHANGED << exit_code, stderr >>
  /\ UNCHANGED << args, response, pisa, writable, raw_data, df_again,
                  df_filtered, df_sorted, sort_column, out_file, calls >>

\* list_unique_values sorts the name column outside any try block.
ListRaises(t, c) == SortRaises(t, c)

\* A list step that prints the list and goes on with the pipeline.
ListActionFallsThrough ==
  /\ pc = "list"
  /\ IF (args.list_colleges /\ ListRaises(df, "College Name"))
          \/ (~args.list_colleges /\ args.list_branches
                /\ ListRaises(df, "Branch Name"))
       THEN Crash
       ELSE pc' = "filter" /\ UNCHANGED << exit_code, stderr, uncaught >>
  /\ UNCHANGED << args, response, pisa, writable, raw_data, df, df_again,
                  df_filtered, df_sorted, sort_column, out_file, calls >>

ListAction ==
  /\ pc = "list"
  /\ IF args.list_colleges
       THEN IF ListRaises(df, "College Name") THEN Crash
            ELSE Exit(0, {}) /\ UNCHANGED uncaught
     ELSE IF args.list_branches
       THEN IF ListRaises(df, "Branch Name") THEN Crash
            ELSE Exit(0, {}) /\ UNCHANGED uncaught
     ELSE pc' = "filter" /\ UNCHANGED << exit_code, stderr, uncaught >>
  /\ UNCHANGED << args, response, pisa, writable, raw_data, df, df_again,
                  df_filtered, df_sorted, sort_column, out_file, calls >>

Filter ==
  /\ pc = "filter"
  /\ LET r == apply_filters(df, args)
     IN  /\ df_filtered' = r.df
         /\ IF r.raised THEN Crash
            ELSE /\ UNCHANGED uncaught
                 /\ IF IsEmpty(r.df) THEN Exit(0, { "no_match" })
                    ELSE pc' = "sort" /\ UNCHANGED << exit_code, stderr >>
  /\ UNCHANGED << args, response, pisa, writable, raw_data, df, df_again,
                  df_sorted, sort_column, out_file, calls >>

Sort ==
  /\ pc = "sort"
  /\ LET r == apply_sorting(df_filtered, args)
     IN  /\ df_sorted' \in r.results
         /\ sort_column' = r.column.name
         /\ stderr' = stderr \cup r.diag
  /\ pc' = "export"
  /\ UNCHANGED << args, response, pisa, writable, raw_data, df, df_again,
                  df_filtered, exit_code, uncaught, out_file, calls >>

Export ==
  /\ pc = "export"
  /\ IF ~Truthy(args.output_file)
       THEN UNCHANGED << out_file, calls >> /\ Exit(0, {})
     ELSE IF args.format = "pdf" /\ ~pisa
       THEN UNCHANGED << out_file, calls >> /\ Exit(0, { "pdf_skipped" })
     ELSE LET r == CASE args.format = "excel" -> save_to_excel(df_sorted, writable)
                     [] args.format = "csv" -> save_to_csv(df_sorted, writable)
                     [] OTHER -> save_to_pdf(df_sorted, writable, pisa)
          IN  /\ out_file' = r.file
              /\ calls' = Append(calls, args.format)
              /\ Exit(0, r.diag)
  /\ UNCHANGED << args, response, pisa, writable, raw_data, df, df_again,
                  df_filtered, df_sorted, sort_column, uncaught >>

Renormalize ==
  /\ pc \in { "list", "done" }
  /\ ~uncaught
  /\ LET r == process_data(to_records(df))
     IN  /\ df_again' = r.df
         /\ pc' = IF r.raised THEN "raised_again" ELSE "renormalized"
  /\ UNCHANGED << args, response, pisa, writable, raw_data, df, df_filtered,
                  df_sorted, sort_column, exit_code, uncaught, stderr,
                  out_file, calls >>

(***************************************************************************)
(* The normalizer on its own: process_data applied to raw records, and     *)
(* applied again to the records of its result.                             *)
(***************************************************************************)
ValueAlphabet == { "5", "0", ".", "x" }

RECURSIVE SeqsUpTo(_, _)
SeqsUpTo(S, n) ==
  IF n = 0 THEN { <<>> }
  ELSE LET shorter == SeqsUpTo(S, n - 1)
       IN  shorter \cup { Append(q, c) : q \in shorter, c \in S }

\* The raw cell values: text up to MaxValLen, JSON numbers, JSON null.
RawValues ==
  { Str(q) : q \in SeqsUpTo(ValueAlphabet, MaxValLen) }
    \cup { NULL, Num(5, 0), Num(55, 1) }

NormKeys == { "coc", "OC", "stal", "yr" }

\* One fixed value per key, for the inputs that vary the shape of the data.
ShapeValue(k) ==
  CASE k = "_id" -> Str(<<"x">>)
    [] k = "coc" -> Str(<<"5">>)
    [] k = "OC"  -> Str(<<"5", ".", "5">>)
    [] k = "stal" -> Str(<<>>)
    [] OTHER -> Str(<<"x">>)

ShapeKeys == { "_id", "OC", "stal", "yr" }

ShapeRecords ==
  { <<>> } \cup { << <<k, ShapeValue(k)>> >> : k \in ShapeKeys }
    \cup { << <<p[1], ShapeValue(p[1])>>, <<p[2], ShapeValue(p[2])>> >> :
             p \in { q \in ShapeKeys \X ShapeKeys : q[1] # q[2] } }

\* The record of the specification's normalization example.
ExampleRecord ==
  << <<"coc", Str(<<"5">>)>>,
     <<"con", Str(<<"A","B","C"," ","C","o","l","l","e","g","e">>)>>,
     <<"brc", Str(<<"C","S">>)>>,
     <<"OC", Str(<<>>)>>,
     <<"ST", Str(<<"1","8","0",".","5">>)>> >>

RECURSIVE ListsUpTo(_, _)
ListsUpTo(S, n) ==
  IF n = 0 THEN { <<>> }
  ELSE LET shorter == ListsUpTo(S, n - 1)
       IN  shorter \cup { Append(q, r) : q \in shorter, r \in S }

NormInputs ==
  { << << <<k, v>> >> >> : k \in NormKeys, v \in RawValues }
    \cup ListsUpTo(ShapeRecords, MaxRecords)
    \cup { << ExampleRecord >> }

InitNorm ==
  /\ NoOutputs
  /\ args = DefaultArgs
  /\ response = NoResponse
  /\ pisa = TRUE
  /\ writable = TRUE
  /\ pc = "process"
  /\ raw_data \in NormInputs
  /\ df = EmptyDF
  /\ df_filtered = EmptyDF
  /\ df_sorted = EmptyDF

NextNorm == Process \/ Renormalize

SpecNorm == InitNorm /\ [][NextNorm]_vars

(***************************************************************************)
(* The filter stage on its own: apply_filters applied to a normalized      *)
(* table and a set of predicates.                                          *)
(***************************************************************************)
FilterRecords ==
  { << <<"coc", Str(<<"5">>)>>, <<"con", Str(<<"A", "b">>)>>,
       <<"brc", Str(<<"c", "s">>)>>, <<"OC", Str(<<"1", "5", "0">>)>> >>,
    << <<"coc", Str(<<"5">>)>>, <<"con", Str(<<"b", ".">>)>>,
       <<"brc", Str(<<"C", "S">>)>>, <<"OC", Str(<<"1", "8", "0", ".", "5">>)>> >>,
    << <<"coc", Str(<<"1", "5">>)>>, <<"brc", Str(<<"E", "C">>)>>,
       <<"OC", Str(<<>>)>> >>,
    << <<"coc", Num(5, 0)>>, <<"con", Str(<<"A">>)>>, <<"brc", Num(5, 0)>>,
       <<"OC", Num(200, 0)>> >> }

FilterTexts(S) == { NULL } \cup { Str(q) : q \in S }

OnlyOC(v) == [ c \in Range(Communities) |-> IF c = "oc" THEN v ELSE NULL ]

OnlyST(v) == [ c \in Range(Communities) |-> IF c = "st" THEN v ELSE NULL ]

\* The predicate sets: every combination of a college code, a college name,
\* a branch code and bounds on the OC cutoff; and bounds on a cutoff that no
\* record carries, and a branch name.
FilterArgs ==
  { [DefaultArgs EXCEPT !.filter_college_code = code,
                        !.filter_college_name = name,
                        !.filter_branch_code = brc,
                        !.min_cutoff = OnlyOC(lo),
                        !.max_cutoff = OnlyOC(hi)] :
      code \in FilterTexts({ <<"5">> }),
      name \in FilterTexts({ <<>>, <<"b">>, <<".">> }),
      brc \in FilterTexts({ <<"C", "s">> }),
      lo \in { NULL, Num(150, 0) },
      hi \in { NULL, Num(180, 0) } }
    \cup { [DefaultArgs EXCEPT !.min_cutoff = OnlyST(Num(0, 0))],
           [DefaultArgs EXCEPT !.max_cutoff = OnlyST(Num(200, 0))],
           [DefaultArgs EXCEPT !.filter_branch_name = Str(<<"x">>)] }

InitFilter ==
  /\ NoOutputs
  /\ response = NoResponse
  /\ pisa = TRUE
  /\ writable = TRUE
  /\ pc = "filter"
  /\ raw_data \in ListsUpTo(FilterRecords, MaxFilterRows) \ { <<>> }
  /\ args \in FilterArgs
  /\ df = process_data(raw_data).df
  /\ df_filtered = EmptyDF
  /\ df_sorted = EmptyDF

SpecFilter == InitFilter /\ [][Filter]_vars

(***************************************************************************)
(* The sort stage on its own.                                              *)
(***************************************************************************)
SortRecords ==
  { << <<"con", Str(<<"B">>)>>, <<"OC", Str(<<"2", "0", "0">>)>> >>,
    << <<"OC", Str(<<>>)>> >>,
    << <<"con", Str(<<"A", "b">>)>>, <<"OC", Str(<<"1", "5", "0">>)>> >>,
    << <<"con", Str(<<"B">>)>>, <<"OC", Str(<<"1", "5", "0">>)>> >> }

SortAlphabet == { "o", "c", "O", "S", "t", "z", " " }

\* The --sort-by texts tried on one table: every text up to MaxSortByLen
\* over SortAlphabet, every mapped name, and the option not given.
SortByInputs ==
  { Str(q) : q \in SeqsUpTo(SortAlphabet, MaxSortByLen) }
    \cup { Str(Chars(COLUMN_MAPPING[j].v)) : j \in 1..Len(COLUMN_MAPPING) }
    \cup { NULL }

\* The columns sorted on every table, in both directions.
SortedColumns ==
  { Str(Chars("OC Cutoff")), Str(Chars("College Name")), Str(<<"o", "c">>) }

InitSort ==
  /\ NoOutputs
  /\ response = NoResponse
  /\ pisa = TRUE
  /\ writable = TRUE
  /\ pc = "sort"
  /\ \/ /\ raw_data \in ListsUpTo(SortRecords, MaxSortRows) \ { <<>> }
        /\ \E by \in SortedColumns, order \in { "asc", "desc" } :
             args = [DefaultArgs EXCEPT !.sort_by = by, !.sort_order = order]
     \/ /\ raw_data = << ExampleRecord, ExampleRecord >>
        /\ \E by \in SortByInputs :
             args = [DefaultArgs EXCEPT !.sort_by = by]
  /\ df = process_data(raw_data).df
  /\ df_filtered = df
  /\ df_sorted = EmptyDF

SpecSort == InitSort /\ [][Sort]_vars

(***************************************************************************)
(* The export stage on its own.                                            *)
(***************************************************************************)
\* A record that carries every seat count.
AllSeats ==
  [ j \in 1..Len(seat_cols) |->
    << COLUMN_MAPPING[CHOOSE i \in 1..Len(COLUMN_MAPPING) :
                        COLUMN_MAPPING[i].v = seat_cols[j]].k,
       Str(<<"5">>) >> ]

ExportRecords ==
  { << <<"con", Str(<<"A">>)>>, <<"OC", Str(<<"1", "5", "0">>)>> >> \o AllSeats,
    << <<"con", Str(<<"B">>)>>, <<"OC", Str(<<>>)>> >> \o AllSeats,
    << <<"con", Str(<<"C">>)>>, <<"OC", Str(<<"1", "5", "0">>)>>,
       <<"stal", Str(<<>>)>> >>,
    ExampleRecord }

InitExport ==
  /\ NoOutputs
  /\ response = NoResponse
  /\ pisa \in BOOLEAN
  /\ writable \in BOOLEAN
  /\ pc = "export"
  /\ raw_data \in ListsUpTo(ExportRecords, MaxExportRows) \ { <<>> }
  /\ \E f \in { "excel", "csv", "pdf" } :
       args = [DefaultArgs EXCEPT !.output_file = Str(<<"o">>), !.format = f]
  /\ df = process_data(raw_data).df
  /\ df_filtered = df
  /\ df_sorted = df

SpecExport == InitExport /\ [][Export]_vars

(***************************************************************************)
(* The whole run of main.                                                  *)
(***************************************************************************)
\* What the GET can meet: the failures, an empty list, and lists of records:
\* plain ones, one with a non-integral seat count, one whose names are
\* numbers, one with every seat count.
MainRecord == << <<"con", Str(<<"B">>)>>, <<"OC", Str(<<"1", "5", "0">>)>> >>

Responses ==
  { Response(k, <<>>) :
      k \in { "http_error", "connection_error", "timeout", "bad_json" } }
    \cup { Response("ok", body) :
             body \in { <<>>,
                        << ExampleRecord >>,
                        << MainRecord \o AllSeats, ExampleRecord >>,
                        << MainRecord \o AllSeats >>,
                        << << <<"octl", Str(<<"5", ".", "5">>)>> >> >>,
                        << << <<"con", Num(5, 0)>>, <<"brn", Num(5, 0)>> >> >> } }

\* The command lines: every combination of year, list flags and output file;
\* and, with an output file, of format, sort column, direction and a filter.
MainArgs ==
  { [DefaultArgs EXCEPT !.year = y, !.list_sortable_columns = ls,
                        !.list_colleges = lc, !.list_branches = lb,
                        !.output_file = o] :
      y \in { 2019, 2024 }, ls \in BOOLEAN, lc \in BOOLEAN, lb \in BOOLEAN,
      o \in { NULL, Str(<<"o">>) } }
    \cup
  { [DefaultArgs EXCEPT !.output_file = Str(<<"o">>), !.format = f,
                        !.sort_by = by, !.sort_order = order,
                        !.filter_college_name = name] :
      f \in { "excel", "csv", "pdf" },
      by \in { NULL, Str(Chars("OC Cutoff")), Str(<<"z", "z">>) },
      order \in { "asc", "desc" },
      name \in { NULL, Str(<<".">>), Str(<<"z", "z">>) } }

Init ==
  /\ NoOutputs
  /\ pc = "parse"
  /\ args \in MainArgs
  /\ response \in Responses
  /\ pisa \in BOOLEAN
  /\ writable \in BOOLEAN
  /\ raw_data = <<>>
  /\ df = EmptyDF
  /\ df_filtered = EmptyDF
  /\ df_sorted = EmptyDF

Next ==
  \/ ParseArgs
  \/ CheckArgs
  \/ Fetch
  \/ Process
  \/ ListAction
  \/ Filter
  \/ Sort
  \/ Export

Spec == Init /\ [][Next]_vars

(***************************************************************************)
(* Claims about the run of main.                                           *)
(***************************************************************************)
FetchFailed == "fetch" \in Range(calls) /\ response.kind # "ok"

InvalidYear == args.year \notin DOMAIN YEAR_TO_API_CODE

InvalidFlags ==
  /\ ~args.list_sortable_columns
  /\ ~(args.list_colleges \/ args.list_branches)
  /\ ~Truthy(args.output_file)

\* C1: a run ends with a non-zero exit code exactly when the fetch failed, the
\* year is invalid or the flag combination is invalid; every other condition
\* ends it with exit code 0, and no run ends in an uncaught exception.
C1_ExitCodes ==
  pc = "done" =>
    /\ ~uncaught
    /\ exit_code # 0 <=> (FetchFailed \/ InvalidYear \/ InvalidFlags)

(***************************************************************************)
(* Claims about the normalizer.                                            *)
(***************************************************************************)
\* process_data was given a non-empty list of records and returned a table.
Normalized == Len(raw_data) > 0 /\ pc \in { "list", "renormalized" }

\* The raw keys of the input that the mapping does not cover, '_id' apart.
ExtraKeys ==
  { k \in Range(FirstSeenKeys(raw_data)) : k \notin MappingKeys /\ k # "_id" }

RawCell(i, k) ==
  IF RecHas(raw_data[i], k) THEN RecGet(raw_data[i], k) ELSE NULL

\* C2: for a non-empty list of raw records the table process_data returns has
\* the 25 canonical columns first, in the declared order, then exactly the
\* raw fields the mapping does not cover, with their values as received; it
\* has no '_id' column, every row has a cell for every column, and a
\* canonical cell is null where the raw record lacked the field.
C2_CanonicalSchema ==
  Normalized =>
    /\ Len(df.columns) = Len(COLUMN_MAPPING) + Cardinality(ExtraKeys)
    /\ \A j \in 1..Len(COLUMN_MAPPING) : df.columns[j] = COLUMN_MAPPING[j].v
    /\ { df.columns[j] : j \in (Len(COLUMN_MAPPING) + 1)..Len(df.columns) }
         = ExtraKeys
    /\ "_id" \notin ColSet(df)
    /\ Len(df.rows) = Len(raw_data)
    /\ \A i \in 1..Len(df.rows) :
         /\ Len(df.rows[i].cells) = Len(df.columns)
         /\ \A j \in 1..Len(COLUMN_MAPPING) :
              ~RecHas(raw_data[i], COLUMN_MAPPING[j].k)
                => IsNull(Cell(df, i, COLUMN_MAPPING[j].v))
         /\ \A x \in ExtraKeys : Cell(df, i, x) = RawCell(i, x)

\* C2 witness: a two-record input with an '_id', an uncovered field and a
\* record that lacks a field the other has, normalized.
C2_Witness ==
  /\ pc = "list"
  /\ Len(raw_data) = 2
  /\ RecHas(raw_data[1], "_id")
  /\ RecHas(raw_data[1], "yr")
  /\ RecHas(raw_data[2], "stal")
  /\ Len(df.columns) = Len(COLUMN_MAPPING) + 1

\* What the coercion of a cutoff cell is to store: the number the text
\* denotes, null for anything else.
ExpectedCutoff(v) ==
  CASE v.t = "num" -> v
    [] v.t = "str" /\ ParsesAsNumber(v.s) -> ParseNumber(v.s)
    [] OTHER -> NULL

\* What the coercion of a seat cell is to store: the integer denoted, null
\* for anything else, a non-integral number included.
ExpectedSeat(v) ==
  IF IsIntegral(ExpectedCutoff(v)) THEN ExpectedCutoff(v) ELSE NULL

\* C3: numeric coercion never raises; every cutoff cell holds the number its
\* raw value parses to or null, every seat cell the integer its raw value
\* parses to or null (a non-integral number gives null).
C3_CoercionNeverRaises ==
  /\ ~uncaught
  /\ Normalized =>
       \A i \in 1..Len(df.rows) : \A j \in 1..Len(COLUMN_MAPPING) :
          LET k == COLUMN_MAPPING[j].k
              c == COLUMN_MAPPING[j].v
          IN  /\ c \in Range(CUTOFF_COLUMNS)
                   => Cell(df, i, c) = ExpectedCutoff(RawCell(i, k))
              /\ c \in Range(seat_cols)
                   => Cell(df, i, c) = ExpectedSeat(RawCell(i, k))

\* C10: normalizing the records of a normalized table succeeds and gives the
\* same table: same columns in the same order, same rows, same cells.
C10_Idempotent ==
  /\ pc # "raised_again"
  /\ pc = "renormalized" => df_again = df

\* C10 witness: the specification's example record, normalized twice, with
\* its parsed cutoff and its null cutoff.
C10_Witness ==
  /\ pc = "renormalized"
  /\ raw_data = << ExampleRecord >>
  /\ Cell(df_again, 1, "ST Cutoff") = Num(1805, 1)
  /\ IsNull(Cell(df_again, 1, "OC Cutoff"))

(***************************************************************************)
(* Claims about apply_filters.                                             *)
(***************************************************************************)
\* apply_filters returned: the run goes on to sort, or ends on "no match".
Filtered == pc = "sort" \/ (pc = "done" /\ "no_match" \in stderr)

\* The predicates as the specification words them, on row i of df: the name
\* filters are literal, case-insensitive substring tests.
Satisfies(i) ==
  /\ Truthy(args.filter_college_code) =>
       AsStr(df, Cell(df, i, "College Code"), "College Code")
         = args.filter_college_code.s
  /\ Truthy(args.filter_branch_code) =>
       /\ Cell(df, i, "Branch Code").t = "str"
       /\ Lower(Cell(df, i, "Branch Code").s) = Lower(args.filter_branch_code.s)
  /\ Truthy(args.filter_college_name) =>
       /\ Cell(df, i, "College Name").t = "str"
       /\ StrIn(Lower(args.filter_college_name.s),
                Lower(Cell(df, i, "College Name").s))
  /\ Truthy(args.filter_branch_name) =>
       /\ Cell(df, i, "Branch Name").t = "str"
       /\ StrIn(Lower(args.filter_branch_name.s),
                Lower(Cell(df, i, "Branch Name").s))
  /\ \A k \in 1..Len(Communities) :
       LET v  == Cell(df, i, CUTOFF_COLUMNS[k])
           lo == args.min_cutoff[Communities[k]]
           hi == args.max_cutoff[Communities[k]]
       IN  /\ ~IsNull(lo) => (~IsNull(v) /\ NumLeq(lo, v))
           /\ ~IsNull(hi) => (~IsNull(v) /\ NumLeq(v, hi))

InResult(i) ==
  \E k \in 1..Len(df_filtered.rows) : df_filtered.rows[k].idx = df.rows[i].idx

\* C4: a record of the table is in the result of apply_filters exactly when it
\* satisfies every predicate that is set: college code equal as text, branch
\* code equal ignoring case, names containing the filter text literally and
\* ignoring case, cutoffs non-null and within the bounds given.
C4_FilterIff ==
  Filtered => \A i \in 1..Len(df.rows) : InResult(i) <=> Satisfies(i)

NoPredicate ==
  /\ ~Truthy(args.filter_college_code)
  /\ ~Truthy(args.filter_college_name)
  /\ ~Truthy(args.filter_branch_code)
  /\ ~Truthy(args.filter_branch_name)
  /\ \A c \in Range(Communities) :
       IsNull(args.min_cutoff[c]) /\ IsNull(args.max_cutoff[c])

\* C5: the result of apply_filters is a sub-sequence of its input: the same
\* columns, only rows of the input with their cells unchanged, each at most
\* once and in the input's order; with no predicate set it is the input; and
\* the input table is what it was before the call.
C5_SubSequence ==
  Filtered =>
    /\ df_filtered.columns = df.columns
    /\ \A k \in 1..Len(df_filtered.rows) :
         \E i \in 1..Len(df.rows) : df_filtered.rows[k] = df.rows[i]
    /\ \A k, l \in 1..Len(df_filtered.rows) :
         k < l => df_filtered.rows[k].idx < df_filtered.rows[l].idx
    /\ NoPredicate => df_filtered = df
    /\ df = process_data(raw_data).df

\* C5 witness: filters on branch code and OC cutoff that keep the second of
\* two rows and drop the first.
C5_Witness ==
  /\ pc = "sort"
  /\ Truthy(args.filter_branch_code)
  /\ ~IsNull(args.max_cutoff["oc"])
  /\ Len(df.rows) = 2
  /\ Len(df_filtered.rows) = 1
  /\ df_filtered.rows[1] = df.rows[2]

(***************************************************************************)
(* Claims about apply_sorting.                                             *)
(***************************************************************************)
\* apply_sorting returned after sorting on a resolved column.
Sorted == pc = "export" /\ sort_column # "" /\ "sort_error" \notin stderr

SortKey(t, q) == Cell(t, q, sort_column)

\* The OC cutoffs of a table, row by row.
OCs(t) == [ q \in 1..Len(t.rows) |-> Cell(t, q, "OC Cutoff") ]

\* C6: sorting on a cutoff column puts the rows with a null key last when
\* ascending and first when descending; sorting on any other column puts
\* them last in both directions; the rows with a key are in the order of the
\* keys, in the direction asked; OC cutoffs [200, null, 150] come out as
\* [150, 200, null] ascending and [null, 200, 150] descending.
C6_NullPlacement ==
  Sorted =>
    LET n == Len(df_sorted.rows)
        ascending == args.sort_order = "asc"
        nullsFirst == sort_column \in Range(CUTOFF_COLUMNS) /\ ~ascending
        isNull(q) == IsNull(SortKey(df_sorted, q))
    IN  /\ n = Len(df_filtered.rows)
        /\ Range(df_sorted.rows) = Range(df_filtered.rows)
        /\ \A p, q \in 1..n :
             p < q =>
               /\ nullsFirst => (isNull(q) => isNull(p))
               /\ ~nullsFirst => (isNull(p) => isNull(q))
               /\ (~isNull(p) /\ ~isNull(q)) =>
                    IF ascending
                      THEN ~KeyLess(SortKey(df_sorted, q), SortKey(df_sorted, p))
                      ELSE ~KeyLess(SortKey(df_sorted, p), SortKey(df_sorted, q))
        /\ (sort_column = "OC Cutoff"
              /\ OCs(df_filtered) = << Num(200, 0), NULL, Num(150, 0) >>) =>
             OCs(df_sorted) = IF ascending
                                THEN << Num(150, 0), Num(200, 0), NULL >>
                                ELSE << NULL, Num(200, 0), Num(150, 0) >>

\* C6 witness: the OC cutoffs [200, null, 150] sorted descending.
C6_Witness ==
  /\ Sorted
  /\ sort_column = "OC Cutoff"
  /\ args.sort_order = "desc"
  /\ OCs(df_filtered) = << Num(200, 0), NULL, Num(150, 0) >>
  /\ OCs(df_sorted) = << NULL, Num(200, 0), Num(150, 0) >>

\* C7: the sort is stable: two rows with equal sort keys, two null keys
\* included, come out in the order they went in.
C7_Stable ==
  Sorted =>
    \A p, q \in 1..Len(df_sorted.rows) :
       (p < q /\ SortKey(df_sorted, p) = SortKey(df_sorted, q))
         => df_sorted.rows[p].idx < df_sorted.rows[q].idx

\* The column the specification resolves a --sort-by text to: the mapped name
\* equal to it, else the name of the first entry whose name or raw code
\* contains it ignoring case, else none ("").
ExpectedColumn(s) ==
  LET exact == { j \in 1..Len(COLUMN_MAPPING) : Chars(COLUMN_MAPPING[j].v) = s }
      holds(j) == \/ StrIn(Lower(s), Lower(Chars(COLUMN_MAPPING[j].v)))
                  \/ StrIn(Lower(s), Lower(Chars(COLUMN_MAPPING[j].k)))
      some == { j \in 1..Len(COLUMN_MAPPING) : holds(j) }
  IN  IF exact # {} THEN COLUMN_MAPPING[CHOOSE j \in exact : TRUE].v
      ELSE IF some # {}
        THEN COLUMN_MAPPING[CHOOSE j \in some : \A i \in some : j <= i].v
      ELSE ""

C9_ExportsComplete ==
  (pc = "done" /\ args.format \in { "excel", "csv" } /\ writable) =>
    LET marker == IF args.format = "csv" THEN Str(<<>>)
                  ELSE Str(<< "N", "/", "A" >>)
    IN  /\ out_file.written
        /\ out_file.format = args.format
        /\ out_file.header = df_sorted.columns
        /\ Len(out_file.rows) = Len(df_sorted.rows)
        /\ \A i \in 1..Len(df_sorted.rows) : \A j \in 1..Len(df_sorted.columns) :
             out_file.rows[i][j] = IF IsNull(df_sorted.rows[i].cells[j])
                                     THEN marker
                                     ELSE df_sorted.rows[i].cells[j]
        /\ df_sorted = df

(***************************************************************************)
(* Claims about the order of the steps of main.                            *)
(***************************************************************************)
Exporters == { "excel", "csv", "pdf" }

\* How many of the calls made so far are calls of one of the names in S.
CallCount(S) == Cardinality({ i \in 1..Len(calls) : calls[i] \in S })

\* C11: a run performs at most one fetch and invokes at most one exporter;
\* an exporter is invoked only after the arguments were accepted, the fetch
\* succeeded with a non-empty result, no list flag was set and at least one
\* record passed the filters, and it is the exporter --format names; no file
\* is written unless an exporter was invoked, so none is written when the
\* fetch fails, the dataset is empty, a list action is asked for or no
\* record matches; and --list-sortable-columns ends the run before any fetch.
C11_CallOrder ==
  /\ CallCount({ "fetch" }) <= 1
  /\ CallCount(Exporters) <= 1
  /\ CallCount({ "fetch" }) = 1 =>
       /\ pc \notin { "parse", "start", "fetch" }
       /\ ~args.list_sortable_columns
       /\ args.year \in DOMAIN YEAR_TO_API_CODE
       /\ args.list_colleges \/ args.list_branches \/ Truthy(args.output_file)
  /\ CallCount(Exporters) = 1 =>
       /\ pc = "done"
       /\ calls = << "fetch", args.format >>
       /\ Truthy(args.output_file)
       /\ response.kind = "ok"
       /\ raw_data = response.body
       /\ Len(raw_data) > 0
       /\ ~args.list_colleges
       /\ ~args.list_branches
       /\ df = process_data(raw_data).df
       /\ df_filtered = apply_filters(df, args).df
       /\ Len(df_filtered.rows) > 0
       /\ Range(df_sorted.rows) = Range(df_filtered.rows)
  /\ out_file.written =>
       /\ CallCount(Exporters) = 1
       /\ out_file.format = args.format
  /\ pc = "done" =>
       ((\/ response.kind # "ok"
         \/ Len(response.body) = 0
         \/ args.list_sortable_columns
         \/ args.list_colleges
         \/ args.list_branches
         \/ Len(df_filtered.rows) = 0)
          => (CallCount(Exporters) = 0 /\ ~out_file.written))

\* C11 witness: a finished run that fetched once and then called the CSV
\* exporter, which wrote the file, with --list-* flags unset.
C11_Witness ==
  /\ pc = "done"
  /\ calls = << "fetch", "csv" >>
  /\ args.format = "csv"
  /\ out_file.written
  /\ out_file.format = "csv"
  /\ Len(df_filtered.rows) > 0

====
